---- MODULE Spec2Model ----
(***************************************************************************)
(* Model of vitest-automoq: mockMethod, createMethodMocker and              *)
(* mockAllPrototypeMethods (and their moqFn / moqAllPrototypeFns variants)  *)
(* acting on a small JavaScript heap: objects with a prototype link and an  *)
(* ordered table of property descriptors.  vi.spyOn / mockRestore follow    *)
(* the spy implementation vitest 3 ships (peer dependency ^3.0.0).          *)
(***************************************************************************)
EXTENDS Integers, Sequences, FiniteSets, TLC

(* ------------------------------ bounds --------------------------------- *)
\* single substitution operations (mockMethod calls)
MaxOps == 1
\* bulk substitution operations (mockAllPrototypeMethods calls)
MaxBulk == 1
\* calls of a method through a target, o.m(arg)
MaxCalls == 1
\* restore invocations in all, and restoreAll invocations in all
MaxUndo == 2
\* mock handles test code configures with a return value
MaxConfig == 1
\* bound mockers created by createMethodMocker
MaxMockers == 1
\* applications of bound mockers
MaxApply == 2

(* ------------------------------ values --------------------------------- *)
Fn(name) == [t |-> "fn", name |-> name, sid |-> 0]
SpyV(n) == [t |-> "spy", name |-> "", sid |-> n]
Prim(name) == [t |-> "prim", name |-> name, sid |-> 0]
Undef == [t |-> "undef", name |-> "", sid |-> 0]

\* typeof v === 'function'
IsFunction(v) == v.t \in {"fn", "spy"}

(* ------------------------- property descriptors ------------------------ *)
\* a data property {value, enumerable}
Data(k, v, e) ==
  [key |-> k, kind |-> "data", val |-> v, hasGet |-> FALSE, hasSet |-> FALSE, enum |-> e]
\* an accessor property; val is what its getter returns (Undef without getter)
Accessor(k, v, g, s, e) ==
  [key |-> k, kind |-> "accessor", val |-> v, hasGet |-> g, hasSet |-> s, enum |-> e]
NoDesc == [key |-> "", kind |-> "none", val |-> Undef, hasGet |-> FALSE, hasSet |-> FALSE, enum |-> FALSE]

(* ------------------------------ the heap ------------------------------- *)
ObjIds == {"ObjectProto", "FunctionProto", "BaseService", "TestService",
           "BaseProto", "TestProto", "service", "sibling", "plain",
           "DerivedProto", "derived", "masked", "bare"}

\* class BaseService { baseMethod }, class TestService extends BaseService
\* { syncMethod, get computedValue, asyncMethod, static staticMethod,
\*   instanceMethod = () => ..., prefix }, two instances, and an object
\* literal { a(){}, b(){}, get val(){return 1}, get hook(){return fn},
\* set sink(v){} }.  Class members are non-enumerable, instance fields and
\* object-literal members are enumerable.
\* class Derived extends TestService { syncMethod (an override),
\* asyncMethod = async () => ..., alias = this.syncMethod } and its instance:
\* a method name defined on two prototype levels, an own function property
\* named like a prototype method, and one function held under two keys.
\* masked: a TestService instance whose own data property syncMethod holds a
\* string; bare: Object.create(null) with an own method run.
InitHeap ==
  [o \in ObjIds |->
    CASE o = "ObjectProto" ->
           [proto |-> "null",
            props |-> << Data("constructor", Fn("Object"), FALSE),
                         Data("toString", Fn("toString"), FALSE) >>]
      [] o = "FunctionProto" ->
           [proto |-> "ObjectProto",
            props |-> << Data("call", Fn("call"), FALSE) >>]
      [] o = "BaseService" ->
           [proto |-> "FunctionProto",
            props |-> << Data("name", Prim("BaseService"), FALSE) >>]
      [] o = "TestService" ->
           [proto |-> "BaseService",
            props |-> << Data("name", Prim("TestService"), FALSE),
                         Data("staticMethod", Fn("staticMethod"), FALSE) >>]
      [] o = "BaseProto" ->
           [proto |-> "ObjectProto",
            props |-> << Data("constructor", Fn("BaseService"), FALSE),
                         Data("baseMethod", Fn("baseMethod"), FALSE) >>]
      [] o = "TestProto" ->
           [proto |-> "BaseProto",
            props |-> << Data("constructor", Fn("TestService"), FALSE),
                         Data("syncMethod", Fn("syncMethod"), FALSE),
                         Accessor("computedValue", Prim("computed"), TRUE, FALSE, FALSE),
                         Data("asyncMethod", Fn("asyncMethod"), FALSE) >>]
      [] o \in {"service", "sibling"} ->
           [proto |-> "TestProto",
            props |-> << Data("prefix", Prim("test-"), TRUE),
                         Data("instanceMethod", Fn("instanceMethod"), TRUE) >>]
      [] o = "DerivedProto" ->
           [proto |-> "TestProto",
            props |-> << Data("constructor", Fn("Derived"), FALSE),
                         Data("syncMethod", Fn("derivedSync"), FALSE) >>]
      [] o = "derived" ->
           [proto |-> "DerivedProto",
            props |-> << Data("prefix", Prim("test-"), TRUE),
                         Data("instanceMethod", Fn("instanceMethod"), TRUE),
                         Data("asyncMethod", Fn("ownAsync"), TRUE),
                         Data("alias", Fn("derivedSync"), TRUE) >>]
      [] o = "masked" ->
           [proto |-> "TestProto",
            props |-> << Data("prefix", Prim("test-"), TRUE),
                         Data("instanceMethod", Fn("instanceMethod"), TRUE),
                         Data("syncMethod", Prim("off"), TRUE) >>]
      [] o = "bare" ->
           [proto |-> "null",
            props |-> << Data("run", Fn("run"), TRUE) >>]
      [] OTHER ->
           [proto |-> "ObjectProto",
            props |-> << Data("a", Fn("a"), TRUE),
                         Data("b", Fn("b"), TRUE),
                         Accessor("val", Prim("one"), TRUE, FALSE, TRUE),
                         Accessor("hook", Fn("hooked"), TRUE, FALSE, TRUE),
                         Accessor("sink", Undef, FALSE, TRUE, TRUE) >>] ]

\* objects handed to the library as the target of a substitution
Targets == {"service", "plain", "TestService"}
\* objects whose methods test code calls
Callers == {"service", "sibling", "plain", "TestService"}

\* Object.getOwnPropertyNames(o), in own-property order
OwnNames(h, o) == [i \in DOMAIN h[o].props |-> h[o].props[i].key]

IsEnumerable(d) == d.enum

\* Object.keys(o): the enumerable own names
Keys(h, o) ==
  LET en == SelectSeq(h[o].props, IsEnumerable)
  IN  [i \in DOMAIN en |-> en[i].key]

HasOwn(h, o, k) == \E i \in DOMAIN h[o].props : h[o].props[i].key = k

\* Object.getOwnPropertyDescriptor(o, k)
OwnDesc(h, o, k) ==
  IF HasOwn(h, o, k)
  THEN h[o].props[CHOOSE i \in DOMAIN h[o].props : h[o].props[i].key = k]
  ELSE NoDesc

\* the nearest object of o's prototype chain (o included) that owns k
RECURSIVE Holder(_, _, _)
Holder(h, o, k) ==
  IF o = "null" THEN "null"
  ELSE IF HasOwn(h, o, k) THEN o
  ELSE Holder(h, h[o].proto, k)

\* k in o
In(h, o, k) == Holder(h, o, k) # "null"

\* o[k]: the value of a data property, or what the getter returns
Get(h, o, k) ==
  LET ho == Holder(h, o, k)
  IN  IF ho = "null" THEN Undef ELSE OwnDesc(h, ho, k).val

\* reading o[k] runs a getter
ReadsGetter(h, o, k) ==
  LET ho == Holder(h, o, k)
  IN  ho # "null" /\ OwnDesc(h, ho, k).kind = "accessor" /\ OwnDesc(h, ho, k).hasGet

\* Object.defineProperty(o, k, d): in place when k is own, appended otherwise
Define(h, o, d) ==
  IF HasOwn(h, o, d.key)
  THEN [h EXCEPT ![o].props =
          [i \in DOMAIN @ |-> IF @[i].key = d.key THEN d ELSE @[i]]]
  ELSE [h EXCEPT ![o].props = Append(@, d)]

\* Reflect.deleteProperty(o, k)
Delete(h, o, k) ==
  LET keep(d) == d.key # k
  IN  [h EXCEPT ![o].props = SelectSeq(@, keep)]

(* ------------------------- vi.spyOn, mockRestore ----------------------- *)
\* One record per spy created by vi.spyOn.  odo/odesc: the object that held
\* the property when it was spied and its descriptor; original: the function
\* behind it; accessor: the spied property was a getter returning a function;
\* id: its position in creation order; calls/ret: the recorded arguments and configured return value of the mock
\* handle given to the caller; undone: how often its restore ran.
\* pre, disturbed, op, bulk are history kept for stating properties: the value
\* read at the key before the substitution, whether another substitution or
\* restore touched the same property since, and the operation that made it.
NewSpy(h, sp, o, k, opn, isBulk) ==
  LET odo == Holder(h, o, k)
      odesc == OwnDesc(h, odo, k)
      acc == odesc.kind = "accessor" /\ odesc.hasGet
      orig == IF odesc.val.t = "spy" /\ ~acc THEN sp[odesc.val.sid].original
              ELSE odesc.val
  IN  [id |-> Len(sp) + 1, obj |-> o, key |-> k, odo |-> odo, odesc |-> odesc, original |-> orig,
       accessor |-> acc, calls |-> << >>, ret |-> Undef, undone |-> 0,
       pre |-> Get(h, o, k), disturbed |-> FALSE, op |-> opn, bulk |-> isBulk]

\* spies on the same property of the same object are disturbed by a new
\* substitution or a restore of that property
Disturb(sp, o, k) ==
  [i \in DOMAIN sp |->
     IF sp[i].obj = o /\ sp[i].key = k THEN [sp[i] EXCEPT !.disturbed = TRUE]
     ELSE sp[i]]

\* the spy assigned where the method was found, on the prototype
SpyOnHolder(h, sp, o, k) ==
  LET odesc == OwnDesc(h, Holder(h, o, k), k)
  IN  Define(h, Holder(h, o, k), [odesc EXCEPT !.val = SpyV(Len(sp) + 1)])

\* vi.spyOn(o, k).mockImplementation(mock): the spy is defined on o itself,
\* under the original descriptor's attributes (as the value, or as what the
\* getter returns when the property is an accessor)
SpyOnHeap(h, sp, o, k) ==
  LET odesc == OwnDesc(h, Holder(h, o, k), k)
      n == Len(sp) + 1
  IN  Define(h, o, [odesc EXCEPT !.val = SpyV(n)])

SpyOnSpies(h, sp, o, k, opn, isBulk) ==
  Append(Disturb(sp, o, k), NewSpy(h, sp, o, k, opn, isBulk))

\* restore written as a swap of the saved and the current value: a second
\* call puts the spy back
MockRestoreSwaps(h, s) ==
  IF Get(h, s.obj, s.key) = SpyV(s.id)
  THEN IF s.odo # s.obj THEN Delete(h, s.obj, s.key)
       ELSE Define(h, s.obj, [s.odesc EXCEPT !.val = s.original])
  ELSE Define(h, s.obj, [s.odesc EXCEPT !.val = SpyV(s.id)])

\* restore that only resets the mock and leaves the property as it is
MockRestoreKeepsSpy(h, s) == h

\* restore by assignment, obj[key] = original, whoever held the property
MockRestoreAssignsOriginal(h, s) ==
  Define(h, s.obj, [s.odesc EXCEPT !.val = IF s.accessor THEN s.odesc.val ELSE s.original])

\* spy.mockRestore(): delete the shadow when the property was inherited,
\* otherwise put the original back under the original descriptor
MockRestore(h, s) ==
  IF s.odo # s.obj THEN Delete(h, s.obj, s.key)
  ELSE Define(h, s.obj,
              [s.odesc EXCEPT !.val = IF s.accessor THEN s.odesc.val ELSE s.original])

(* ------------------------------ mockMethod ------------------------------ *)
NoKey == ""

\* a method argument: a name (string) or a function reference
ByName(k) == [byName |-> TRUE, name |-> k, ref |-> Undef]
ByRef(v) == [byName |-> FALSE, name |-> NoKey, ref |-> v]

\* Array.prototype.find: the first element satisfying the test, else NoKey
RECURSIVE FindKey(_, _, _, _)
FindKey(h, o, cands, v) ==
  IF cands = << >> THEN NoKey
  ELSE IF Get(h, o, Head(cands)) = v THEN Head(cands)
  ELSE FindKey(h, o, Tail(cands), v)

\* the scan started at the target's own keys
CandidatesOwnFirst(h, o) == Keys(h, o) \o OwnNames(h, h[o].proto)

\* the names scanned for a function reference
Candidates(h, o) == OwnNames(h, h[o].proto) \o Keys(h, o)

\* methodName
MethodName(h, o, m) ==
  IF m.byName THEN m.name ELSE FindKey(h, o, Candidates(h, o), m.ref)

\* the typeof check left out
OutcomeWithoutTypeCheck(h, o, m) ==
  LET k == MethodName(h, o, m)
  IN  IF k = NoKey \/ ~In(h, o, k) THEN "NotFound" ELSE "ok"

\* a lookup that accepts instances only: a class (a callable target) has no
\* methods to substitute
OutcomeRejectsClasses(h, o, m) ==
  LET k == MethodName(h, o, m)
  IN  IF k = NoKey \/ ~In(h, o, k) \/ In(h, o, "call") THEN "NotFound"
      ELSE IF ~IsFunction(Get(h, o, k)) THEN "NotCallable"
      ELSE "ok"

\* the outcome of mockMethod(o, m) before any mutation
MockMethodOutcome(h, o, m) ==
  LET k == MethodName(h, o, m)
  IN  IF k = NoKey \/ ~In(h, o, k) THEN "NotFound"
      ELSE IF ~IsFunction(Get(h, o, k)) THEN "NotCallable"
      ELSE "ok"

(* ------------------------ mockAllPrototypeMethods ----------------------- *)
\* the optional filter predicate: absent, or true exactly on accept
NoFilter == [has |-> FALSE, accept |-> {}]
Only(S) == [has |-> TRUE, accept |-> S]
\* a filter that is never consulted
PassAll(f, k) == TRUE

\* filter && !filter(key) is false
Pass(f, k) == ~f.has \/ k \in f.accept

\* mocks[key] = spy
MocksPut(m, k, n) == {e \in m : e.key # k} \cup {[key |-> k, sid |-> n]}

\* the loop state of one bulk call: heap, spies, the mocks mapping, the
\* spies array, the key the accessor error names, the getters run, the
\* (object, key) pairs the filter was called with, the prototypes walked
Acc(h, sp) ==
  [h |-> h, sp |-> sp, mocks |-> {}, created |-> << >>, err |-> NoKey, reads |-> {},
   asked |-> {}, levels |-> << >>]

\* filter(key) is evaluated for a key of object lvl
Ask(acc, f, lvl, k) ==
  IF f.has THEN [acc EXCEPT !.asked = @ \cup {[lvl |-> lvl, key |-> k]}] ELSE acc

\* callability decided from the prototype's value, not through the target
VisitReadsPrototype(acc, o, k, opn) ==
  IF IsFunction(Get(acc.h, acc.h[o].proto, k))
  THEN [acc EXCEPT !.h = SpyOnHeap(acc.h, acc.sp, o, k),
                   !.sp = SpyOnSpies(acc.h, acc.sp, o, k, opn, TRUE),
                   !.mocks = MocksPut(@, k, Len(acc.sp) + 1),
                   !.created = Append(@, Len(acc.sp) + 1)]
  ELSE acc

\* const property = instance[key]; if (typeof property === 'function') spyOn
Visit(acc, o, k, opn) ==
  LET rd == IF ReadsGetter(acc.h, o, k) THEN acc.reads \cup {k} ELSE acc.reads
  IN  IF IsFunction(Get(acc.h, o, k))
      THEN [acc EXCEPT !.h = SpyOnHeap(acc.h, acc.sp, o, k),
                       !.sp = SpyOnSpies(acc.h, acc.sp, o, k, opn, TRUE),
                       !.mocks = MocksPut(@, k, Len(acc.sp) + 1),
                       !.created = Append(@, Len(acc.sp) + 1),
                       !.reads = rd]
      ELSE [acc EXCEPT !.reads = rd]

\* restoreAll that returns after the first spy
RestoreAllFirstOnly(h, sp, sids) ==
  IF sids = << >> THEN h ELSE MockRestore(h, sp[Head(sids)])

\* restoreAll that unwinds: the last spy created is restored first
RECURSIVE RestoreAllReversed(_, _, _)
RestoreAllReversed(h, sp, sids) ==
  IF sids = << >> THEN h
  ELSE MockRestore(RestoreAllReversed(h, sp, Tail(sids)), sp[Head(sids)])

\* restoreAll: for (const spy of spies) spy.mockRestore()
RECURSIVE RestoreAllHeap(_, _, _)
RestoreAllHeap(h, sp, sids) ==
  IF sids = << >> THEN h
  ELSE RestoreAllHeap(MockRestore(h, sp[Head(sids)]), sp, Tail(sids))

\* bulk walk that skips accessor properties instead of throwing
RECURSIVE WalkKeysSkipsAccessors(_, _, _, _, _, _)
WalkKeysSkipsAccessors(acc, o, lvl, keys, f, opn) ==
  IF keys = << >> THEN acc
  ELSE LET k == Head(keys)
           d == OwnDesc(acc.h, lvl, k)
       IN  IF k = "constructor" \/ ~Pass(f, k) \/ d.hasGet \/ d.hasSet
           THEN WalkKeysSkipsAccessors(acc, o, lvl, Tail(keys), f, opn)
           ELSE WalkKeysSkipsAccessors(Visit(acc, o, k, opn), o, lvl, Tail(keys), f, opn)

\* bulk walk that undoes its substitutions before throwing
RECURSIVE WalkKeysRollsBack(_, _, _, _, _, _)
WalkKeysRollsBack(acc, o, lvl, keys, f, opn) ==
  IF keys = << >> \/ acc.err # NoKey THEN acc
  ELSE LET k == Head(keys)
           d == OwnDesc(acc.h, lvl, k)
       IN  IF k = "constructor" \/ ~Pass(f, k)
           THEN WalkKeysRollsBack(acc, o, lvl, Tail(keys), f, opn)
           ELSE IF d.hasGet \/ d.hasSet
           THEN [acc EXCEPT !.err = k,
                            !.h = RestoreAllHeap(acc.h, acc.sp, acc.created)]
           ELSE WalkKeysRollsBack(Visit(acc, o, k, opn), o, lvl, Tail(keys), f, opn)

\* bulk walk that consults the filter before it looks for 'constructor'
RECURSIVE WalkKeysFilterFirst(_, _, _, _, _, _)
WalkKeysFilterFirst(acc, o, lvl, keys, f, opn) ==
  IF keys = << >> \/ acc.err # NoKey THEN acc
  ELSE LET k == Head(keys)
           d == OwnDesc(acc.h, lvl, k)
           a1 == Ask(acc, f, lvl, k)
       IN  IF ~Pass(f, k) \/ k = "constructor"
           THEN WalkKeysFilterFirst(a1, o, lvl, Tail(keys), f, opn)
           ELSE IF d.hasGet \/ d.hasSet
           THEN [a1 EXCEPT !.err = k]
           ELSE WalkKeysFilterFirst(Visit(a1, o, k, opn), o, lvl, Tail(keys), f, opn)

\* for (const key of Object.getOwnPropertyNames(proto)) { ... }
\* key === 'constructor' || (filter && !filter(key)): the filter is not
\* evaluated for 'constructor'
RECURSIVE WalkKeys(_, _, _, _, _, _)
WalkKeys(acc, o, lvl, keys, f, opn) ==
  IF keys = << >> \/ acc.err # NoKey THEN acc
  ELSE LET k == Head(keys)
           d == OwnDesc(acc.h, lvl, k)
           a1 == IF k = "constructor" THEN acc ELSE Ask(acc, f, lvl, k)
       IN  IF k = "constructor" \/ ~Pass(f, k)
           THEN WalkKeys(a1, o, lvl, Tail(keys), f, opn)
           ELSE IF d.hasGet \/ d.hasSet
           THEN [a1 EXCEPT !.err = k]
           ELSE WalkKeys(Visit(a1, o, k, opn), o, lvl, Tail(keys), f, opn)

\* the walk without the break: ancestors are visited whatever the flag says
RECURSIVE WalkProtosIgnoresFlag(_, _, _, _, _, _)
WalkProtosIgnoresFlag(acc, o, lvl, f, inh, opn) ==
  IF lvl = "null" \/ lvl = "ObjectProto" \/ acc.err # NoKey THEN acc
  ELSE WalkProtosIgnoresFlag(WalkKeys(acc, o, lvl, OwnNames(acc.h, lvl), f, opn),
                             o, acc.h[lvl].proto, f, inh, opn)

\* the walk that ends only at the end of the chain, Object.prototype included
RECURSIVE WalkProtosThroughRoot(_, _, _, _, _, _)
WalkProtosThroughRoot(acc, o, lvl, f, inh, opn) ==
  IF lvl = "null" \/ acc.err # NoKey THEN acc
  ELSE LET a2 == WalkKeys([acc EXCEPT !.levels = Append(@, lvl)],
                          o, lvl, OwnNames(acc.h, lvl), f, opn)
       IN  IF ~inh THEN a2
           ELSE WalkProtosThroughRoot(a2, o, acc.h[lvl].proto, f, inh, opn)

\* while (proto && proto !== Object.prototype) { ...; if (!includeInherited) break }
RECURSIVE WalkProtos(_, _, _, _, _, _)
WalkProtos(acc, o, lvl, f, inh, opn) ==
  IF lvl = "null" \/ lvl = "ObjectProto" \/ acc.err # NoKey THEN acc
  ELSE LET a2 == WalkKeys([acc EXCEPT !.levels = Append(@, lvl)],
                          o, lvl, OwnNames(acc.h, lvl), f, opn)
       IN  IF ~inh THEN a2
           ELSE WalkProtos(a2, o, acc.h[lvl].proto, f, inh, opn)

\* for (const key of Object.keys(instance)) { ... }
RECURSIVE WalkInstance(_, _, _, _, _)
WalkInstance(acc, o, keys, f, opn) ==
  IF keys = << >> THEN acc
  ELSE IF ~Pass(f, Head(keys))
  THEN WalkInstance(Ask(acc, f, o, Head(keys)), o, Tail(keys), f, opn)
  ELSE WalkInstance(Visit(Ask(acc, f, o, Head(keys)), o, Head(keys), opn),
                    o, Tail(keys), f, opn)

\* the whole call; err # NoKey means it threw the getter/setter error
MockAllPrototypeMethods(h, sp, o, f, inh, inst, opn) ==
  LET a1 == WalkProtos(Acc(h, sp), o, h[o].proto, f, inh, opn)
  IN  IF a1.err # NoKey \/ ~inst THEN a1
      ELSE WalkInstance(a1, o, Keys(a1.h, o), f, opn)

(* ------------------------------- state --------------------------------- *)
VARIABLES
  objs,    \* the heap: object id -> [proto, props]
  spies,   \* the spies created so far, in creation order
  bulks,   \* the {mocks, restoreAll} results returned by successful bulk calls
  ops,     \* single substitution operations performed
  nbulk,   \* bulk substitution operations performed
  ncalls,  \* method calls performed
  mockers, \* the closures createMethodMocker returned, with the target asked for
  last     \* the most recent operation and what its caller observed

vars == <<objs, spies, bulks, ops, nbulk, ncalls, mockers, last>>

\* names and references test code passes to mockMethod, per target
NameArgs(o) ==
  CASE o = "service" -> {"syncMethod", "baseMethod", "instanceMethod", "prefix",
                         "computedValue", "nonExistent"}
    [] o = "plain" -> {"a", "val", "hook", "sink"}
    [] OTHER -> {"staticMethod"}
RefKeys == {"syncMethod", "baseMethod", "instanceMethod", "staticMethod", "a", "hook"}
RefArgs(h, o) ==
  {Get(h, o, k) : k \in {x \in RefKeys : IsFunction(Get(h, o, x))}}
    \cup (IF o = "service" THEN {Fn("stray")} ELSE {})
MethodArgs(h, o) == {ByName(k) : k \in NameArgs(o)} \cup {ByRef(v) : v \in RefArgs(h, o)}

Filters == {NoFilter, Only({"syncMethod"}), Only({"computedValue"}),
            Only({"syncMethod", "asyncMethod", "baseMethod", "instanceMethod", "a", "b"}),
            Only({"a"})}

CallKeys == {"syncMethod", "baseMethod", "instanceMethod", "staticMethod", "a", "hook"}
Args == {"x", "y"}
Rets == {Prim("mocked")}

\* what an original function returns: it depends on the function, this and the argument
OrigResult(name, o, arg) == [by |-> name, this |-> o, arg |-> arg, val |-> Undef]
MockResult(v) == [by |-> "mock", this |-> "", arg |-> "", val |-> v]
NoResult == [by |-> "", this |-> "", arg |-> "", val |-> Undef]

Idle ==
  [op |-> "none", target |-> "", method |-> ByName(NoKey), filter |-> NoFilter,
   inh |-> FALSE, inst |-> FALSE, outcome |-> "", key |-> NoKey, sid |-> 0,
   bulk |-> 0, arg |-> "", result |-> NoResult, routed |-> 0, mocks |-> {},
   created |-> << >>, reads |-> {}, mocker |-> 0, asked |-> {}, levels |-> << >>]

Init ==
  /\ objs = InitHeap
  /\ spies = << >>
  /\ bulks = << >>
  /\ ops = 0
  /\ nbulk = 0
  /\ ncalls = 0
  /\ mockers = << >>
  /\ last = Idle

\* the getters run by mockMethod(o, m): the scan for a reference reads
\* instance[key] for every candidate up to the match, and the typeof check
\* reads instance[methodName]
RECURSIVE ScanReads(_, _, _, _)
ScanReads(h, o, cands, v) ==
  IF cands = << >> THEN {}
  ELSE (IF ReadsGetter(h, o, Head(cands)) THEN {Head(cands)} ELSE {})
       \cup (IF Get(h, o, Head(cands)) = v THEN {}
             ELSE ScanReads(h, o, Tail(cands), v))

MockMethodReads(h, o, m) ==
  LET k == MethodName(h, o, m)
  IN  (IF m.byName THEN {} ELSE ScanReads(h, o, Candidates(h, o), m.ref))
      \cup (IF k # NoKey /\ ReadsGetter(h, o, k) THEN {k} ELSE {})

\* the body of mockMethod(t, m), entered directly (mk = 0) or through the
\* bound mocker mk
MockMethodCall(t, m, opname, mk) ==
  LET out == MockMethodOutcome(objs, t, m)
      k == MethodName(objs, t, m)
      rec == [Idle EXCEPT !.op = opname, !.target = t, !.method = m,
                          !.outcome = out, !.key = k, !.mocker = mk,
                          !.reads = MockMethodReads(objs, t, m)]
  IN  /\ ops' = ops + 1
      /\ IF out = "ok"
         THEN /\ objs' = SpyOnHeap(objs, spies, t, k)
              /\ spies' = SpyOnSpies(objs, spies, t, k, ops + nbulk + 1, FALSE)
              /\ last' = [rec EXCEPT !.sid = Len(spies) + 1]
         ELSE /\ UNCHANGED <<objs, spies>>
              /\ last' = rec
      /\ UNCHANGED <<bulks, nbulk, ncalls>>

\* mockMethod(t, m)
MockMethod(t, m) ==
  /\ ops < MaxOps
  /\ MockMethodCall(t, m, "mockMethod", 0)
  /\ UNCHANGED mockers

\* a closure that maps every method to some other instance
MockerOnOtherInstance(instance) == [instance |-> "sibling"]

\* createMethodMocker(instance): the closure and the instance it captured
CreateMethodMocker(instance) == [instance |-> instance]

\* const autoMoq = createMethodMocker(t)
CreateMocker(t) ==
  /\ Len(mockers) < MaxMockers
  /\ mockers' = Append(mockers, [closure |-> CreateMethodMocker(t), target |-> t])
  /\ last' = [Idle EXCEPT !.op = "createMethodMocker", !.target = t,
                          !.mocker = Len(mockers) + 1, !.outcome = "ok"]
  /\ UNCHANGED <<objs, spies, bulks, ops, nbulk, ncalls>>

\* autoMoq(m): (method) => mockMethod(instance, method)
ApplyMocker(b, m) ==
  /\ ops < MaxApply
  /\ MockMethodCall(mockers[b].closure.instance, m, "autoMoq", b)
  /\ UNCHANGED mockers

\* the restore invocations recorded in a sequence of handles
RECURSIVE SumUndone(_)
SumUndone(q) == IF q = << >> THEN 0 ELSE Head(q).undone + SumUndone(Tail(q))

IsSingle(s) == ~s.bulk

\* mocker.restore()
Restore(s) ==
  /\ ~spies[s].bulk
  /\ SumUndone(SelectSeq(spies, IsSingle)) < MaxUndo
  /\ objs' = MockRestore(objs, spies[s])
  /\ spies' = [i \in DOMAIN spies |->
                 IF i = s THEN [spies[i] EXCEPT !.undone = @ + 1]
                 ELSE Disturb(spies, spies[s].obj, spies[s].key)[i]]
  /\ last' = [Idle EXCEPT !.op = "restore", !.target = spies[s].obj,
                          !.key = spies[s].key, !.sid = s, !.outcome = "ok"]
  /\ UNCHANGED <<bulks, ops, nbulk, ncalls, mockers>>

\* a caller handed { mocks, restoreAll } although the call threw
ReturnedDespiteError(bs, r) == Append(bs, [created |-> r.created, undone |-> 0])

\* return { mocks, restoreAll }: reached only when no error was thrown
Returned(bs, r) ==
  IF r.err = NoKey THEN Append(bs, [created |-> r.created, undone |-> 0]) ELSE bs

\* mockAllPrototypeMethods(t, f, inh, inst)
MockAll(t, f, inh, inst) ==
  LET r == MockAllPrototypeMethods(objs, spies, t, f, inh, inst, ops + nbulk + 1)
      ok == r.err = NoKey
  IN  /\ nbulk < MaxBulk
      /\ nbulk' = nbulk + 1
      /\ objs' = r.h
      /\ spies' = r.sp
      /\ bulks' = Returned(bulks, r)
      /\ last' = [Idle EXCEPT !.op = "mockAll", !.target = t, !.filter = f,
                              !.inh = inh, !.inst = inst,
                              !.outcome = IF ok THEN "ok" ELSE "AccessorError",
                              !.key = r.err,
                              !.bulk = IF ok THEN Len(bulks) + 1 ELSE 0,
                              !.mocks = IF ok THEN r.mocks ELSE {},
                              !.created = r.created,
                              !.reads = r.reads,
                              !.asked = r.asked,
                              !.levels = r.levels]
      /\ UNCHANGED <<ops, ncalls, mockers>>

\* the spies a restoreAll disturbs: every other spy on one of its properties
RECURSIVE DisturbAll(_, _, _)
DisturbAll(sp, mine, sids) ==
  IF sids = << >> THEN sp
  ELSE LET s == sp[Head(sids)]
           d == Disturb(sp, s.obj, s.key)
       IN  DisturbAll([i \in DOMAIN sp |-> IF i \in mine THEN sp[i] ELSE d[i]],
                      mine, Tail(sids))

Range(q) == {q[i] : i \in DOMAIN q}

\* mocker.restoreAll()
RestoreAll(b) ==
  LET sids == bulks[b].created
  IN  /\ SumUndone(bulks) < MaxUndo
      /\ objs' = RestoreAllHeap(objs, spies, sids)
      /\ spies' = [i \in DOMAIN spies |->
                     IF i \in Range(sids) THEN [spies[i] EXCEPT !.undone = @ + 1]
                     ELSE DisturbAll(spies, Range(sids), sids)[i]]
      /\ bulks' = [bulks EXCEPT ![b].undone = @ + 1]
      /\ last' = [Idle EXCEPT !.op = "restoreAll", !.bulk = b, !.outcome = "ok",
                              !.created = sids]
      /\ UNCHANGED <<ops, nbulk, ncalls, mockers>>

\* handle.mockReturnValue(v) on the mock handle of spy s
Configure(s, v) ==
  /\ spies[s].ret # v
  /\ Cardinality({i \in DOMAIN spies : spies[i].ret # Undef}) < MaxConfig
  /\ spies' = [spies EXCEPT ![s].ret = v]
  /\ last' = [Idle EXCEPT !.op = "configure", !.sid = s, !.outcome = "ok"]
  /\ UNCHANGED <<objs, bulks, ops, nbulk, ncalls, mockers>>

\* calling the function value v with this = o: an original function computes
\* its result; a spy routes to its mock until restored, then to its original
\* a spy left without mockImplementation: it records, then runs the original
InvokeCallsThrough(sp, v, o, arg) ==
  IF v.t = "spy"
  THEN [result |-> OrigResult(sp[v.sid].original.name, o, arg), routed |-> v.sid]
  ELSE [result |-> OrigResult(v.name, o, arg), routed |-> 0]

RECURSIVE Invoke(_, _, _, _)
Invoke(sp, v, o, arg) ==
  IF v.t = "spy"
  THEN IF sp[v.sid].undone = 0
       THEN [result |-> MockResult(sp[v.sid].ret), routed |-> v.sid]
       ELSE Invoke(sp, sp[v.sid].original, o, arg)
  ELSE [result |-> OrigResult(v.name, o, arg), routed |-> 0]

\* o.k(arg) in test code
Call(o, k, arg) ==
  LET v == Get(objs, o, k)
      r == Invoke(spies, v, o, arg)
  IN  /\ ncalls < MaxCalls
      /\ IsFunction(v)
      /\ ncalls' = ncalls + 1
      /\ spies' = IF r.routed = 0 THEN spies
                  ELSE [spies EXCEPT ![r.routed].calls = Append(@, arg)]
      /\ last' = [Idle EXCEPT !.op = "call", !.target = o, !.key = k, !.arg = arg,
                              !.result = r.result, !.routed = r.routed,
                              !.outcome = "ok"]
      /\ UNCHANGED <<objs, bulks, ops, nbulk, mockers>>

Next ==
  \/ \E t \in Targets : \E m \in MethodArgs(objs, t) : MockMethod(t, m)
  \/ \E s \in DOMAIN spies : Restore(s)
  \/ \E t \in Targets, f \in Filters, inh \in BOOLEAN, inst \in BOOLEAN :
       MockAll(t, f, inh, inst)
  \/ \E b \in DOMAIN bulks : RestoreAll(b)
  \/ \E s \in DOMAIN spies, v \in Rets : Configure(s, v)
  \/ \E o \in Callers, k \in CallKeys, arg \in Args : Call(o, k, arg)
  \/ \E t \in Targets : CreateMocker(t)
  \/ \E b \in DOMAIN mockers :
       \E m \in MethodArgs(objs, mockers[b].target) : ApplyMocker(b, m)

Spec == Init /\ [][Next]_vars

\* single-method substitution and its use
NextSingle ==
  \/ \E t \in Targets : \E m \in MethodArgs(objs, t) : MockMethod(t, m)
  \/ \E s \in DOMAIN spies : Restore(s)
  \/ \E s \in DOMAIN spies, v \in Rets : Configure(s, v)
  \/ \E o \in Callers \ {"sibling"}, k \in CallKeys, arg \in Args : Call(o, k, arg)
  \/ \E k \in {"syncMethod", "instanceMethod"} : Call("sibling", k, "x")

SpecSingle == Init /\ [][NextSingle]_vars

\* bulk substitution and its use
NextBulk ==
  \/ \E t \in Targets, f \in Filters, inh \in BOOLEAN, inst \in BOOLEAN :
       MockAll(t, f, inh, inst)
  \/ \E b \in DOMAIN bulks : RestoreAll(b)
  \/ \E o \in {"service", "sibling"}, arg \in Args : Call(o, "syncMethod", arg)

SpecBulk == Init /\ [][NextBulk]_vars

\* substitution and restoration only
NextUndo ==
  \/ \E t \in {"service", "plain"} :
       \E k \in NameArgs(t) \cap {"syncMethod", "instanceMethod", "a"} :
         MockMethod(t, ByName(k))
  \/ \E s \in DOMAIN spies : Restore(s)
  \/ \E inst \in BOOLEAN :
       MockAll("service", Only({"syncMethod", "instanceMethod"}), FALSE, inst)
  \/ \E b \in DOMAIN bulks : RestoreAll(b)

SpecUndo == Init /\ [][NextUndo]_vars

\* substitution on an instance that shadows and aliases prototype methods
ShadowRefs(h) == {ByRef(Get(h, "derived", k)) : k \in {"alias", "asyncMethod"}}
ShadowFilters == {NoFilter,
                  Only({"syncMethod", "asyncMethod", "baseMethod", "instanceMethod", "a", "b"})}

NextShadow ==
  \/ \E m \in ShadowRefs(objs) \cup {ByName("alias")} : MockMethod("derived", m)
  \/ \E f \in ShadowFilters, inh \in BOOLEAN, inst \in BOOLEAN :
       MockAll("derived", f, inh, inst)
  \/ \E b \in DOMAIN bulks : RestoreAll(b)

SpecShadow == Init /\ [][NextShadow]_vars

\* bound mockers and their applications
MockerArgs(h, t) ==
  IF t = "service"
  THEN {ByName(k) : k \in {"syncMethod", "asyncMethod", "prefix", "nonExistent"}}
         \cup {ByRef(Get(h, t, k)) : k \in {"syncMethod", "asyncMethod"}}
         \cup {ByRef(Fn("stray"))}
  ELSE {ByName("staticMethod"), ByRef(Get(h, t, "staticMethod"))}

NextMocker ==
  \/ \E t \in {"service", "TestService"} : CreateMocker(t)
  \/ \E b \in DOMAIN mockers :
       \E m \in MockerArgs(objs, mockers[b].target) : ApplyMocker(b, m)
  \/ \E o \in {"service", "TestService"}, arg \in Args :
       \E k \in {"syncMethod", "asyncMethod", "staticMethod"} : Call(o, k, arg)

SpecMocker == Init /\ [][NextMocker]_vars

\* the bulk walk over targets with short, shadowed and ordinary chains
WalkTargets == {"service", "masked", "plain", "bare"}
WalkFilters == {NoFilter,
                Only({"constructor", "syncMethod", "asyncMethod", "baseMethod", "a", "run"})}

NextWalk ==
  \/ \E t \in WalkTargets, f \in WalkFilters, inh \in BOOLEAN, inst \in BOOLEAN :
       MockAll(t, f, inh, inst)
  \/ \E b \in DOMAIN bulks : RestoreAll(b)
  \/ \E o \in WalkTargets, arg \in Args :
       \E k \in {"syncMethod", "a", "run"} : Call(o, k, arg)

SpecWalk == Init /\ [][NextWalk]_vars

(* ------------------------------ properties ------------------------------ *)
\* pairs of spy indices and the keys they stand for
KeysOf(m) == {e.key : e \in m}

\* a substitution made over the original callable, with no other
\* substitution or restore of the same property since
Clean(s) == spies[s].pre.t = "fn" /\ ~spies[s].disturbed

\* the single substitutions in force on property k of o
InForce(o, k) ==
  {s \in DOMAIN spies : /\ ~spies[s].bulk
                        /\ spies[s].obj = o /\ spies[s].key = k
                        /\ spies[s].undone = 0 /\ ~spies[s].disturbed}

\* C1: after a successful mockMethod(o, m), a call o.m(arg) is routed to the
\* returned mock handle: the handle records the argument passed and the call
\* returns the handle's configured value, not the original method's result.
C1_CallRoutedToMock ==
  last.op = "call" =>
    \A s \in InForce(last.target, last.key) :
      /\ last.routed = s
      /\ spies[s].calls # << >>
      /\ spies[s].calls[Len(spies[s].calls)] = last.arg
      /\ last.result = MockResult(spies[s].ret)
      /\ last.result.by # spies[s].original.name

C1_Witness ==
  /\ last.op = "call" /\ last.arg = "y"
  /\ \E s \in InForce(last.target, last.key) :
       /\ spies[s].odo # spies[s].obj
       /\ spies[s].ret = Prim("mocked")
       /\ last.result = MockResult(Prim("mocked"))

\* the single substitutions of property k of o that have been undone
Undone(o, k) ==
  {s \in DOMAIN spies : /\ ~spies[s].bulk
                        /\ spies[s].obj = o /\ spies[s].key = k
                        /\ spies[s].undone >= 1 /\ Clean(s)}

\* C2: after the restore of a substituted method, the target's property reads
\* the original callable again and a call yields the original method's result
\* for the same target and argument.
C2_RestoreGivesOriginal ==
  /\ last.op = "restore" /\ Clean(last.sid) =>
       Get(objs, last.target, last.key) = spies[last.sid].pre
  /\ last.op = "call" =>
       \A s \in Undone(last.target, last.key) :
         /\ last.routed = 0
         /\ last.result = OrigResult(spies[s].pre.name, last.target, last.arg)

C2_Witness ==
  /\ last.op = "call"
  /\ \E s \in Undone(last.target, last.key) :
       /\ spies[s].ret = Prim("mocked")
       /\ spies[s].odo # spies[s].obj
       /\ last.result = OrigResult("syncMethod", "service", last.arg)

\* every property name of the heap
AllNames == UNION {{InitHeap[o].props[i].key : i \in DOMAIN InitHeap[o].props} : o \in ObjIds}

\* C3: for a function reference that is the value of a property reachable on
\* the target under name k, mockMethod resolves the reference to key k.
C3_ReferenceResolvesToName ==
  [][last'.op = "mockMethod" /\ ~last'.method.byName =>
       \A k \in AllNames :
         In(objs, last'.target, k) /\ Get(objs, last'.target, k) = last'.method.ref
           => last'.key = k /\ last'.outcome = "ok"]_vars

\* C4: a second restore of a substitution, and a second restoreAll of a bulk
\* result, leave the heap exactly as the first invocation left it.
C4_SecondUndoChangesNothing ==
  [][/\ (/\ last'.op = "restore"
         /\ spies[last'.sid].undone >= 1
         /\ ~spies[last'.sid].disturbed) => objs' = objs
     /\ (/\ last'.op = "restoreAll"
         /\ bulks[last'.bulk].undone >= 1
         /\ \A i \in DOMAIN last'.created : ~spies[last'.created[i]].disturbed)
          => objs' = objs]_vars

C4_Witness ==
  /\ \E s \in DOMAIN spies :
       ~spies[s].bulk /\ spies[s].undone = 2 /\ ~spies[s].disturbed
  /\ \E b \in DOMAIN bulks :
       /\ bulks[b].undone = 2 /\ bulks[b].created # << >>
       /\ \A i \in DOMAIN bulks[b].created : ~spies[bulks[b].created[i]].disturbed

\* C5: mockMethod by name on an accessor property (getter and/or setter) fails
\* with the not-callable error and leaves the heap unchanged.
C5_AccessorNeverSubstituted ==
  [][/\ last'.op = "mockMethod"
     /\ last'.method.byName
     /\ In(objs, last'.target, last'.method.name)
     /\ OwnDesc(objs, Holder(objs, last'.target, last'.method.name),
                last'.method.name).kind = "accessor"
     => last'.outcome = "NotCallable" /\ objs' = objs]_vars

\* the method argument names no property reachable from the target
Unresolvable(h, o, m) ==
  IF m.byName THEN \A o2 \in ObjIds : Holder(h, o, m.name) # o2
  ELSE \A k \in AllNames : In(h, o, k) => Get(h, o, k) # m.ref

\* C6: mockMethod fails with the not-found error when its argument names no
\* reachable property, with the not-callable error when the named property
\* exists and is not a function, and whenever it fails the heap and the spies
\* are as before the call.
C6_AtomicDistinctErrors ==
  [][last'.op = "mockMethod" =>
       /\ Unresolvable(objs, last'.target, last'.method)
            => last'.outcome = "NotFound"
       /\ (/\ last'.method.byName
           /\ ~Unresolvable(objs, last'.target, last'.method)
           /\ Get(objs, last'.target, last'.method.name).t \in {"prim", "undef"})
            => last'.outcome = "NotCallable"
       /\ last'.outcome # "ok" => objs' = objs /\ spies' = spies
       /\ last'.outcome = "ok" => objs' # objs]_vars

C6_Witness ==
  /\ last.op = "mockMethod" /\ last.outcome = "NotCallable"
  /\ last.method = ByName("prefix")
  /\ objs = InitHeap

\* C7: a successful mockMethod on target t changes one property of t and
\* nothing else: prototypes, base classes and the sibling instance keep their
\* properties, and a call through the sibling still runs the original method.
C7_OnlyTargetPropertyMutated ==
  [][/\ \A o \in ObjIds \ Targets : objs'[o] = InitHeap[o]
     /\ (last'.op = "mockMethod" /\ last'.outcome = "ok") =>
          /\ \A o \in ObjIds \ {last'.target} : objs'[o] = objs[o]
          /\ \A k \in AllNames \ {last'.key} :
               OwnDesc(objs', last'.target, k) = OwnDesc(objs, last'.target, k)
          /\ OwnDesc(objs', last'.target, last'.key).val = SpyV(last'.sid)
     /\ (last'.op = "call" /\ last'.target = "sibling") =>
          /\ last'.routed = 0
          /\ last'.result =
               OrigResult(Get(InitHeap, "sibling", last'.key).name, "sibling", last'.arg)]_vars

C7_Witness ==
  /\ last.op = "call" /\ last.target = "sibling" /\ last.key = "syncMethod"
  /\ \E s \in InForce("service", "syncMethod") :
       /\ spies[s].odo = "TestProto"
       /\ spies[s].ret = Prim("mocked")
  /\ HasOwn(objs, "service", "syncMethod")
  /\ ~HasOwn(objs, "sibling", "syncMethod")

\* the prototype levels a bulk call on t walks, nearest first
RECURSIVE ChainFrom(_)
ChainFrom(p) ==
  IF p \in {"null", "ObjectProto"} THEN << >>
  ELSE <<p>> \o ChainFrom(InitHeap[p].proto)

LevelsOf(t, inh) ==
  LET c == ChainFrom(InitHeap[t].proto)
  IN  IF inh \/ c = << >> THEN c ELSE <<c[1]>>

\* the (level, key) pairs of the walk in traversal order
RECURSIVE Traversal(_)
Traversal(lvls) ==
  IF lvls = << >> THEN << >>
  ELSE [i \in DOMAIN InitHeap[Head(lvls)].props |->
          [lvl |-> Head(lvls), key |-> InitHeap[Head(lvls)].props[i].key]]
       \o Traversal(Tail(lvls))

\* the filter returns true for k (or there is no filter)
Accepts(f, k) == f.has => k \in f.accept

\* p is a key of the walk that passes the filter and is declared with a
\* getter or a setter on its level
Offends(f, p) ==
  /\ p.key # "constructor"
  /\ Accepts(f, p.key)
  /\ \E i \in DOMAIN InitHeap[p.lvl].props :
       /\ InitHeap[p.lvl].props[i].key = p.key
       /\ InitHeap[p.lvl].props[i].hasGet \/ InitHeap[p.lvl].props[i].hasSet

FirstOffender(f, tr) ==
  IF \E i \in DOMAIN tr : Offends(f, tr[i])
  THEN CHOOSE i \in DOMAIN tr :
         Offends(f, tr[i]) /\ \A j \in 1..(i - 1) : ~Offends(f, tr[j])
  ELSE 0

\* C8: a bulk call whose walk reaches a key that passes the filter and is a
\* getter/setter on its prototype level fails with the accessor error naming
\* that key; an accessor the filter rejects never causes the error.
C8_AccessorFailsBulk ==
  last.op = "mockAll" =>
    LET tr == Traversal(LevelsOf(last.target, last.inh))
        i == FirstOffender(last.filter, tr)
    IN  /\ i # 0 => last.outcome = "AccessorError" /\ last.key = tr[i].key
        /\ i = 0 => last.outcome = "ok"
        /\ last.outcome = "AccessorError" => Accepts(last.filter, last.key)

C8_Witness ==
  /\ last.op = "mockAll" /\ last.outcome = "AccessorError"
  /\ last.key = "computedValue" /\ last.target = "service"
  /\ last.filter = Only({"computedValue"})

\* C9: when a bulk call fails with the accessor error at key g, the keys
\* substituted before g stay substituted on the target and every other
\* property of the target is as it was before the call.
C9_NoRollbackNoOvershoot ==
  [][last'.op = "mockAll" /\ last'.outcome = "AccessorError" =>
       LET t == last'.target
           tr == Traversal(LevelsOf(t, last'.inh))
           g == FirstOffender(last'.filter, tr)
           before == {tr[j].key : j \in 1..(g - 1)}
           done == {k \in before : /\ k # "constructor"
                                   /\ Accepts(last'.filter, k)
                                   /\ IsFunction(Get(objs, t, k))}
       IN  /\ g # 0
           /\ \A k \in done :
                /\ HasOwn(objs', t, k)
                /\ Get(objs', t, k).t = "spy"
                /\ \E i \in DOMAIN last'.created : Get(objs', t, k) = SpyV(last'.created[i])
                /\ Get(objs', t, k).sid > Len(spies)
           /\ \A k \in AllNames \ done :
                OwnDesc(objs', t, k) = OwnDesc(objs, t, k)
           /\ \A o \in ObjIds \ {t} : objs'[o] = objs[o]]_vars

C9_Witness ==
  /\ last.op = "mockAll" /\ last.outcome = "AccessorError"
  /\ last.target = "service" /\ last.key = "computedValue"
  /\ Get(objs, "service", "syncMethod").t = "spy"
  /\ Get(objs, "service", "asyncMethod") = Fn("asyncMethod")
  /\ ~HasOwn(objs, "service", "asyncMethod")

\* the keys a bulk call visits: the non-constructor names of the walked
\* prototype levels, and the target's enumerable own names when instance
\* properties are included
VisitedKeys(h, t, inh, inst) ==
  LET tr == Traversal(LevelsOf(t, inh))
  IN  ({tr[i].key : i \in DOMAIN tr} \ {"constructor"})
        \cup (IF inst THEN {h[t].props[i].key :
                              i \in {j \in DOMAIN h[t].props : h[t].props[j].enum}}
              ELSE {})

\* C10 as stated: on the object literal with own methods a and b, the filter
\* key => key === 'a' yields a mocks mapping containing exactly a.
C10_PlainObjectFilterYieldsA ==
  (/\ last.op = "mockAll" /\ last.target = "plain"
   /\ last.filter = Only({"a"}) /\ last.outcome = "ok")
    => KeysOf(last.mocks) = {"a"}

\* C10 amended: the mocks mapping of a successful bulk call holds exactly the
\* visited keys that pass the filter and read a function through the target;
\* for the object literal, whose prototype is Object.prototype, no prototype
\* key is visited and the mapping is empty unless instance properties are
\* included.
C10_MocksAreVisitedCallables ==
  [][last'.op = "mockAll" /\ last'.outcome = "ok" =>
       /\ KeysOf(last'.mocks) =
            {k \in VisitedKeys(objs, last'.target, last'.inh, last'.inst) :
               Accepts(last'.filter, k) /\ IsFunction(Get(objs, last'.target, k))}
       /\ \A e \in last'.mocks : Get(objs', last'.target, e.key) = SpyV(e.sid)
       /\ (last'.target = "plain" /\ ~last'.inst) => last'.mocks = {}]_vars

C10_Witness ==
  /\ last.op = "mockAll" /\ last.outcome = "ok"
  /\ last.target = "service" /\ last.filter = Only({"syncMethod"})
  /\ KeysOf(last.mocks) = {"syncMethod"}
  /\ Get(objs, "service", "asyncMethod") = Fn("asyncMethod")

\* the keys of the spies a bulk call created
MadeKeys(sp, created) == {sp[created[i]].key : i \in DOMAIN created}

\* the first position of key k in a traversal
Pos(tr, k) == CHOOSE i \in DOMAIN tr : tr[i].key = k /\ \A j \in 1..(i - 1) : tr[j].key # k

\* the keys t reaches only through an ancestor beyond its immediate prototype
BaseOnly(h, t) ==
  LET c == ChainFrom(InitHeap[t].proto)
  IN  {k \in AllNames \ {"constructor"} :
         \E i \in 2..Len(c) : Holder(h, t, k) = c[i]}

\* the keys t reaches only on Object.prototype
RootOnly(h, t) == {k \in AllNames : Holder(h, t, k) = "ObjectProto"}

\* C11: without includeInherited a bulk call substitutes only own names of the
\* target's immediate prototype; with it, names of every ancestor prototype
\* below Object.prototype, nearest level first; a method defined only on a
\* base class is in mocks exactly when includeInherited is true; a key defined
\* only on Object.prototype is never substituted.
C11_InheritedLevelsWalked ==
  [][last'.op = "mockAll" =>
       LET t == last'.target
           tr == Traversal(LevelsOf(t, last'.inh))
           made == MadeKeys(spies', last'.created)
       IN  /\ ~last'.inst =>
                /\ made \subseteq {tr[i].key : i \in DOMAIN tr}
                /\ \A i, j \in DOMAIN last'.created :
                     i < j => Pos(tr, spies'[last'.created[i]].key)
                                < Pos(tr, spies'[last'.created[j]].key)
           /\ \A k \in BaseOnly(objs, t) :
                (/\ last'.outcome = "ok" /\ Accepts(last'.filter, k)
                 /\ IsFunction(Get(objs, t, k)))
                  => (k \in KeysOf(last'.mocks) <=> last'.inh)
           /\ \A k \in RootOnly(objs, t) :
                /\ k \notin made
                /\ ~HasOwn(objs', t, k)
                /\ Get(objs', t, k) = Get(InitHeap, "ObjectProto", k)]_vars

C11_Witness ==
  /\ last.op = "mockAll" /\ last.outcome = "ok"
  /\ last.target = "service" /\ last.inh /\ ~last.inst
  /\ {"syncMethod", "asyncMethod", "baseMethod"} \subseteq KeysOf(last.mocks)
  /\ Get(objs, "service", "baseMethod").t = "spy"
  /\ Get(objs, "service", "toString") = Fn("toString")

\* the own enumerable properties of t that pass the filter
OwnPassing(h, t, f) ==
  {d \in Range(h[t].props) : d.enum /\ Accepts(f, d.key)}

\* C12: with includeInstanceProperties a bulk call treats the target's own
\* properties as it treats prototype keys: an own function-valued property
\* that passes the filter is substituted and is in mocks, and an own property
\* that passes the filter and is a getter/setter makes the call fail with the
\* accessor error.
C12_OwnAccessorFailsBulk ==
  [][last'.op = "mockAll" /\ last'.inst =>
       LET own == OwnPassing(objs, last'.target, last'.filter)
       IN  /\ (\E d \in own : d.hasGet \/ d.hasSet)
                => last'.outcome = "AccessorError"
           /\ last'.outcome = "ok" =>
                \A d \in own :
                  (d.kind = "data" /\ IsFunction(d.val))
                    => d.key \in KeysOf(last'.mocks)]_vars

\* C13: after restoreAll of a successful bulk call, every key of its mocks
\* mapping reads, through the target, the callable that was behind the key
\* when it was substituted, whatever the filter and the two flags were.
C13_RestoreAllGivesOriginals ==
  last.op = "restoreAll" =>
    \A i \in DOMAIN last.created :
      LET s == spies[last.created[i]]
      IN  /\ s.undone >= 1
          /\ Get(objs, s.obj, s.key) = s.original
          /\ s.pre.t = "fn" => Get(objs, s.obj, s.key) = s.pre

C13_Witness ==
  /\ last.op = "restoreAll"
  /\ {"syncMethod", "baseMethod", "instanceMethod"}
       \subseteq MadeKeys(spies, last.created)
  /\ \A i \in DOMAIN last.created : spies[last.created[i]].obj = "service"
  /\ Get(objs, "service", "baseMethod") = Fn("baseMethod")
  /\ Get(objs, "service", "instanceMethod") = Fn("instanceMethod")
  /\ objs = InitHeap

\* the least index of a non-empty set of indices
Least(S) == CHOOSE i \in S : \A j \in S : i <= j

\* C14 as stated: a function reference held under several keys resolves to
\* the first match of the scan over the target's own keys followed by the own
\* names of its prototype.
C14_FirstMatchOwnFirst ==
  [][last'.op = "mockMethod" /\ ~last'.method.byName =>
       LET t == last'.target
           order == Keys(objs, t) \o OwnNames(objs, objs[t].proto)
           hits == {i \in DOMAIN order : Get(objs, t, order[i]) = last'.method.ref}
       IN  hits # {} => last'.key = order[Least(hits)]]_vars

\* C14 amended: a function reference held under several keys resolves to the
\* first match of the scan over the own names of the target's prototype
\* followed by the target's own enumerable keys; with no match the call fails
\* with the not-found error.
C14_FirstMatchPrototypeFirst ==
  [][last'.op = "mockMethod" /\ ~last'.method.byName =>
       LET t == last'.target
           order == OwnNames(objs, objs[t].proto) \o Keys(objs, t)
           hits == {i \in DOMAIN order : Get(objs, t, order[i]) = last'.method.ref}
       IN  IF hits = {} THEN last'.outcome = "NotFound"
           ELSE /\ last'.key = order[Least(hits)]
                /\ last'.outcome = "ok"
                /\ Get(objs', t, last'.key) = SpyV(last'.sid)]_vars

C14_Witness ==
  /\ last.op = "mockMethod" /\ last.target = "derived"
  /\ last.method = ByRef(Fn("derivedSync"))
  /\ last.key = "syncMethod"
  /\ Get(objs, "derived", "syncMethod") = SpyV(last.sid)
  /\ Get(objs, "derived", "alias") = Fn("derivedSync")

\* C15: the spies one bulk call collects for restoreAll are on pairwise
\* different properties: no key is substituted twice in one call.
C15_NoKeySubstitutedTwice ==
  last.op = "mockAll" =>
    \A i, j \in DOMAIN last.created :
      i # j => spies[last.created[i]].key # spies[last.created[j]].key

\* the keys of a sequence of (level, key) pairs
KeySeq(tr) == [i \in DOMAIN tr |-> tr[i].key]

\* the substitutions a bulk call makes, in order: the walked prototype levels
\* nearest first, each in own-name order, then the target's own keys
ExpectedOrder(h, t, f, inh, inst) ==
  LET sub(k) == k # "constructor" /\ Accepts(f, k) /\ IsFunction(Get(h, t, k))
      own(k) == Accepts(f, k) /\ IsFunction(Get(h, t, k))
  IN  SelectSeq(KeySeq(Traversal(LevelsOf(t, inh))), sub)
        \o (IF inst THEN SelectSeq(Keys(h, t), own) ELSE << >>)

\* the heap after the undo actions of the spies in S ran in creation order
RECURSIVE UndoInCreationOrder(_, _)
UndoInCreationOrder(h, S) ==
  IF S = {} THEN h
  ELSE UndoInCreationOrder(MockRestore(h, spies[Least(S)]), S \ {Least(S)})

\* C16: a bulk call creates its substitutions level by level from the nearest
\* prototype, in own-name order within a level, instance properties last, and
\* restoreAll runs their undo actions in that creation order.
C16_RestoreAllInCreationOrder ==
  [][/\ (last'.op = "mockAll" /\ last'.outcome = "ok") =>
          /\ [i \in DOMAIN last'.created |-> spies'[last'.created[i]].key]
               = ExpectedOrder(objs, last'.target, last'.filter, last'.inh, last'.inst)
          /\ \A i \in DOMAIN last'.created : last'.created[i] = Len(spies) + i
     /\ last'.op = "restoreAll" =>
          objs' = UndoInCreationOrder(objs, Range(last'.created))]_vars

C16_Witness ==
  /\ last.op = "restoreAll"
  /\ [i \in DOMAIN last.created |-> spies[last.created[i]].key]
       = <<"syncMethod", "syncMethod", "asyncMethod", "baseMethod",
           "instanceMethod", "asyncMethod">>
  /\ HasOwn(objs, "derived", "syncMethod")
  /\ Get(objs, "derived", "syncMethod") = Fn("derivedSync")

\* C17: applying the mocker bound to target t to a name or reference x has
\* the outcome of mockMethod(t, x): the same key substituted on t, or the same
\* error with nothing changed; an application changes only its own key, so
\* substitutions made by earlier applications stay installed.
C17_BoundMockerIsMockMethod ==
  [][last'.op = "autoMoq" =>
       LET t == mockers[last'.mocker].target
           out == MockMethodOutcome(objs, t, last'.method)
           k == MethodName(objs, t, last'.method)
       IN  /\ last'.target = t
           /\ last'.outcome = out
           /\ last'.key = k
           /\ IF out = "ok"
              THEN /\ objs' = SpyOnHeap(objs, spies, t, k)
                   /\ \A o \in ObjIds \ {t} : objs'[o] = objs[o]
                   /\ \A k2 \in AllNames \ {k} :
                        OwnDesc(objs', t, k2) = OwnDesc(objs, t, k2)
                   /\ \A s \in DOMAIN spies :
                        (/\ (spies[s].obj # t \/ spies[s].key # k)
                         /\ Get(objs, spies[s].obj, spies[s].key) = SpyV(s))
                          => Get(objs', spies[s].obj, spies[s].key) = SpyV(s)
              ELSE objs' = objs /\ spies' = spies]_vars

C17_Witness ==
  /\ last.op = "autoMoq" /\ last.outcome = "ok" /\ last.mocker = 1
  /\ mockers[1].target = "service"
  /\ last.method = ByRef(Fn("asyncMethod"))
  /\ Len(spies) = 2
  /\ Get(objs, "service", "syncMethod") = SpyV(1)
  /\ Get(objs, "service", "asyncMethod") = SpyV(2)

\* C18: mockMethod(Class, 'staticMethod') succeeds on a class target and puts
\* the spy on the class itself; a later Class.staticMethod(arg) is routed to
\* the mock, which records arg and returns the configured value.
C18_StaticMethodByName ==
  [][/\ (/\ last'.op = "mockMethod" /\ last'.target = "TestService"
         /\ last'.method = ByName("staticMethod")) =>
          /\ last'.outcome = "ok" /\ last'.key = "staticMethod"
          /\ OwnDesc(objs', "TestService", "staticMethod").val = SpyV(last'.sid)
          /\ \A o \in ObjIds \ {"TestService"} : objs'[o] = objs[o]
     /\ (/\ last'.op = "call" /\ last'.target = "TestService"
         /\ last'.key = "staticMethod"
         /\ Get(objs, "TestService", "staticMethod").t = "spy") =>
          LET s == Get(objs, "TestService", "staticMethod").sid
          IN  spies[s].undone = 0 =>
                /\ last'.routed = s
                /\ spies'[s].calls = Append(spies[s].calls, last'.arg)
                /\ last'.result = MockResult(spies[s].ret)]_vars

C18_Witness ==
  /\ last.op = "call" /\ last.target = "TestService" /\ last.key = "staticMethod"
  /\ last.arg = "y" /\ last.routed = 1
  /\ spies[1].op = 1 /\ spies[1].obj = "TestService"
  /\ spies[1].calls = <<"y">>
  /\ last.result = MockResult(Prim("mocked"))

\* C19: the bulk prototype walk runs no getter (the descriptor is inspected
\* before the value is read), and resolving a function reference in
\* mockMethod runs no getter of the target either.
C19_NoGetterInvoked ==
  /\ (last.op = "mockAll" /\ ~last.inst) => last.reads = {}
  /\ (last.op = "mockMethod" /\ ~last.method.byName) => last.reads = {}

\* C20: undoing the substitution of a method the target only inherited leaves
\* the target without an own property under that key, the lookup reaching
\* the identical inherited function on the same prototype; undoing the
\* substitution of an own method leaves the identical original function as
\* the own property, under its original descriptor; nothing else changes.
C20_UndoReturnsToPreState ==
  [][(/\ last'.op = "restore"
      /\ spies[last'.sid].pre.t = "fn"
      /\ ~spies[last'.sid].disturbed) =>
       LET s == spies[last'.sid]
       IN  /\ s.odo # s.obj =>
                /\ ~HasOwn(objs', s.obj, s.key)
                /\ Holder(objs', s.obj, s.key) = s.odo
                /\ Get(objs', s.obj, s.key) = s.pre
           /\ s.odo = s.obj =>
                /\ OwnDesc(objs', s.obj, s.key) = s.odesc
                /\ Get(objs', s.obj, s.key) = s.pre
                /\ OwnNames(objs', s.obj) = OwnNames(objs, s.obj)
           /\ \A o \in ObjIds \ {s.obj} : objs'[o] = objs[o]
           /\ \A k \in AllNames \ {s.key} :
                OwnDesc(objs', s.obj, k) = OwnDesc(objs, s.obj, k)
           /\ (Len(spies) = 1 /\ s.undone = 0) => objs' = InitHeap]_vars

C20_Witness ==
  /\ last.op = "restore" /\ last.target = "service" /\ last.key = "syncMethod"
  /\ spies[last.sid].odo = "TestProto" /\ spies[last.sid].undone = 1
  /\ ~spies[last.sid].disturbed
  /\ ~HasOwn(objs, "service", "syncMethod")
  /\ Get(objs, "service", "syncMethod") = Fn("syncMethod")
  /\ objs = InitHeap

\* C21: in the prototype walk of a bulk call 'constructor' is skipped before
\* the filter is consulted: at no walked level is the filter called with
\* 'constructor' (it is called with every other key reached), and
\* 'constructor' is neither substituted nor present in mocks, even when the
\* filter would accept it.
C21_ConstructorSkippedBeforeFilter ==
  last.op = "mockAll" =>
    /\ \A e \in last.asked :
         e.lvl \in Range(last.levels) => e.key # "constructor"
    /\ "constructor" \notin KeysOf(last.mocks)
    /\ "constructor" \notin MadeKeys(spies, last.created)
    /\ ~HasOwn(objs, last.target, "constructor")
    /\ (last.outcome = "ok" /\ last.filter.has) =>
         \A i \in DOMAIN last.levels :
           \A k \in Range(OwnNames(InitHeap, last.levels[i])) \ {"constructor"} :
             [lvl |-> last.levels[i], key |-> k] \in last.asked

C21_Witness ==
  /\ last.op = "mockAll" /\ last.outcome = "ok" /\ last.target = "service"
  /\ last.filter.has /\ "constructor" \in last.filter.accept
  /\ last.levels = <<"TestProto", "BaseProto">>
  /\ [lvl |-> "BaseProto", key |-> "baseMethod"] \in last.asked
  /\ {"syncMethod", "baseMethod"} \subseteq KeysOf(last.mocks)
  /\ Get(objs, "service", "constructor") = Fn("TestService")

\* C22: in the prototype walk callability is decided from the value read
\* through the target: a key of a walked level that the target shadows with
\* a non-callable own data property is skipped silently, being neither
\* substituted nor put in mocks nor named by an error, and a walk that meets
\* no accepted accessor succeeds.
C22_ShadowedNonCallableSkipped ==
  [][last'.op = "mockAll" =>
       LET t == last'.target
           tr == Traversal(LevelsOf(t, last'.inh))
       IN  /\ \A i \in DOMAIN tr :
                LET k == tr[i].key
                    d == OwnDesc(objs, t, k)
                IN  (HasOwn(objs, t, k) /\ d.kind = "data" /\ ~IsFunction(d.val)) =>
                      /\ k \notin KeysOf(last'.mocks)
                      /\ k \notin MadeKeys(spies', last'.created)
                      /\ OwnDesc(objs', t, k) = d
                      /\ last'.key # k
           /\ FirstOffender(last'.filter, tr) = 0 => last'.outcome = "ok"]_vars

C22_Witness ==
  /\ last.op = "mockAll" /\ last.outcome = "ok" /\ last.target = "masked"
  /\ Accepts(last.filter, "syncMethod")
  /\ "TestProto" \in Range(last.levels)
  /\ "asyncMethod" \in KeysOf(last.mocks)
  /\ "syncMethod" \notin KeysOf(last.mocks)
  /\ OwnDesc(objs, "masked", "syncMethod") = Data("syncMethod", Prim("off"), TRUE)
  /\ Get(InitHeap, "TestProto", "syncMethod") = Fn("syncMethod")

\* the spies of bulk calls that no returned restoreAll covers
Orphans(sp, bs) ==
  {s \in DOMAIN sp : sp[s].bulk /\ \A b \in DOMAIN bs : s \notin Range(bs[b].created)}

\* C23: a bulk call that fails with the accessor error returns nothing: the
\* caller gets no mocks mapping and no restoreAll, so the spies the call had
\* installed belong to no returned handle and are never undone through one.
C23_NoHandleOnAccessorError ==
  [][/\ (last'.op = "mockAll" /\ last'.outcome = "AccessorError") =>
          /\ bulks' = bulks
          /\ last'.mocks = {} /\ last'.bulk = 0
          /\ \A i \in DOMAIN last'.created :
               last'.created[i] \in Orphans(spies', bulks')
     /\ (last'.op = "mockAll" /\ last'.outcome = "ok") =>
          /\ Len(bulks') = Len(bulks) + 1
          /\ bulks'[last'.bulk].created = last'.created
     /\ \A s \in Orphans(spies', bulks') : spies'[s].undone = 0]_vars

C23_Witness ==
  /\ last.op = "mockAll" /\ last.outcome = "AccessorError"
  /\ last.target = "service" /\ last.filter = NoFilter
  /\ bulks = << >>
  /\ last.created = <<1>>
  /\ 1 \in Orphans(spies, bulks)
  /\ Get(objs, "service", "syncMethod") = SpyV(1)

\* C24: a bulk call always comes to an end with a result: its walk follows
\* the prototype links, which no operation changes, visits each level once
\* and stops at Object.prototype or at the end of the chain; for a target
\* whose immediate prototype is Object.prototype or null, without instance
\* properties, it substitutes nothing and returns an empty mocks mapping
\* without error.
C24_WalkEndsAtRoot ==
  [][/\ \A o \in ObjIds : objs'[o].proto = InitHeap[o].proto
     /\ last'.op = "mockAll" =>
          LET t == last'.target
              chain == ChainFrom(InitHeap[t].proto)
              lv == last'.levels
          IN  /\ last'.outcome \in {"ok", "AccessorError"}
              /\ Len(lv) <= Len(chain) /\ Len(chain) < Cardinality(ObjIds)
              /\ lv = SubSeq(chain, 1, Len(lv))
              /\ \A i, j \in DOMAIN lv : i # j => lv[i] # lv[j]
              /\ "ObjectProto" \notin Range(lv)
              /\ (last'.outcome = "ok" /\ last'.inh) => lv = chain
              /\ InitHeap[t].proto \in {"ObjectProto", "null"} =>
                   /\ lv = << >>
                   /\ ~last'.inst =>
                        /\ last'.outcome = "ok"
                        /\ last'.mocks = {} /\ last'.created = << >>
                        /\ objs' = objs /\ spies' = spies]_vars

C24_Witness ==
  /\ last.op = "mockAll" /\ last.outcome = "ok" /\ last.target = "bare"
  /\ last.inh /\ ~last.inst /\ last.filter = NoFilter
  /\ last.levels = << >> /\ last.mocks = {}
  /\ spies = << >> /\ bulks = << [created |-> << >>, undone |-> 0] >>
  /\ Get(objs, "bare", "run") = Fn("run")

====
